---- MODULE Spec2Model ----
(***************************************************************************)
(* Traversal engine of the asynchronous website crawler                    *)
(* (src/async_crawler.py, class AsyncParallelCrawler) with the URL and     *)
(* file-name helpers of src/utils.py.                                      *)
(*                                                                         *)
(* A URL string is modelled by the record of its syntactic parts           *)
(*   [scheme, netloc, path, fragment]                                      *)
(* standing for the text  scheme "://" netloc path "#" fragment ; a record *)
(* whose scheme is "" stands for a text without "://" (netloc \o path).    *)
(* Optional[X] values are 0/1-length tuples: <<>> is None, <<x>> is x.     *)
(* JSON objects are functions from the keys present to their values.       *)
(***************************************************************************)
EXTENDS Integers, Sequences, FiniteSets, TLC

(***************************************************************************)
(* Bounds of the model                                                     *)
(***************************************************************************)
MaxDepthBound == 2        \* max_depth ranges over 0..MaxDepthBound
MaxPagesBound == 4        \* max_pages ranges over 1..MaxPagesBound
MaxConcurrentBound == 2   \* max_concurrent ranges over 1..MaxConcurrentBound
MaxRuns == 2              \* runs on the same output directory
MaxResults == 3           \* results of a list handed to _generate_stats on its own

(***************************************************************************)
(* The URL strings of the modelled site                                    *)
(***************************************************************************)
U(s, n, p, f) == [scheme |-> s, netloc |-> n, path |-> p, fragment |-> f]

\* start_url arguments: with scheme, without scheme, with a fragment
Seeds == { U("https", "a.test", "/", ""),
           U("", "a.test", "/", ""),
           U("https", "a.test", "/", "top") }

\* hrefs a fetched page may report: a page, the same page with a fragment,
\* a page under the host in capitals, a page of another host
LinkUniverse == { U("https", "a.test", "/x", ""),
                  U("https", "a.test", "/x", "top"),
                  U("https", "A.TEST", "/y", ""),
                  U("https", "www.a.test", "/x", "") }

None == <<>>
Some(x) == <<x>>

\* the normalized start_url of the site
SeedUrl == U("https", "a.test", "/", "")

(***************************************************************************)
(* src/utils.py and urllib.parse                                           *)
(***************************************************************************)
\* urlparse: a text without "://" has no scheme and no netloc, all of it is path
urlparse(url) ==
    IF url.scheme = ""
    THEN [scheme |-> "", netloc |-> "", path |-> url.netloc \o url.path,
          fragment |-> url.fragment]
    ELSE url

\* str.lower on the host names of the site
lower(s) == IF s = "A.TEST" THEN "a.test" ELSE s

\* URLValidator.is_valid_url
is_valid_url(url) ==
    LET result == urlparse(url) IN result.scheme # "" /\ result.netloc # ""

\* URLValidator.normalize_url: prefix https:// when missing, drop the fragment
normalize_url(url) ==
    LET prefixed == IF url.scheme = "" THEN [url EXCEPT !.scheme = "https"] ELSE url
        parsed == urlparse(prefixed)
    IN [parsed EXCEPT !.fragment = ""]

\* OutputPathGenerator.generate_filename: built from netloc and path only
\* (scheme, query and fragment do not enter); an empty or "/" path is "index".
\* The character replacements are injective on the modelled site.
generate_filename(url) ==
    LET parsed == urlparse(url)
    IN [domain |-> parsed.netloc,
        path |-> IF parsed.path \in {"", "/"} THEN "index" ELSE parsed.path]

(***************************************************************************)
(* Data classes                                                            *)
(***************************************************************************)
CrawlTask(url, depth, parent_url) ==
    [url |-> url, depth |-> depth, parent_url |-> parent_url]

CrawlResult(url, title, content_length, links_count, success, error, depth, filename) ==
    [url |-> url, title |-> title, content_length |-> content_length,
     links_count |-> links_count, success |-> success, error |-> error,
     depth |-> depth, filename |-> filename]

\* set.add on a set of CrawlTask: equality and hash are by url, an equal
\* element already present is kept
TaskSetAdd(tasks, t) ==
    IF \E q \in tasks : q.url = t.url THEN tasks ELSE tasks \cup {t}

TaskUrls(tasks) == { t.url : t \in tasks }

SeedTask == CrawlTask(SeedUrl, 0, None)

Range(s) == { s[i] : i \in DOMAIN s }

\* some enumeration of a finite set (list(set) in Python)
RECURSIVE SetToSeq(_)
SetToSeq(S) ==
    IF S = {} THEN <<>>
    ELSE LET x == CHOOSE y \in S : TRUE IN <<x>> \o SetToSeq(S \ {x})

\* sequences of distinct elements of S, of length n
RECURSIVE Arrangements(_, _)
Arrangements(S, n) ==
    IF n = 0 THEN { <<>> }
    ELSE UNION { { <<x>> \o r : r \in Arrangements(S \ {x}, n - 1) } : x \in S }

Min(a, b) == IF a < b THEN a ELSE b


(***************************************************************************)
(* State                                                                   *)
(***************************************************************************)
VARIABLES
    max_concurrent, max_depth, max_pages,   \* AsyncParallelCrawler.__init__ arguments
    include_patterns, exclude_patterns,     \* arguments of crawl_website_parallel
    start_url,                              \* the normalized start_url of the run
    visited_urls, pending_tasks, completed_results,
    checkpoint_loaded,                      \* local of crawl_website_parallel
    current_batch,                          \* list of CrawlTask of the step
    batch_results,                          \* per position: None while unresolved
    idx,                                    \* results of the batch already processed
    holding,                                \* positions of the batch whose fetch holds self.semaphore
    overtaken,                              \* history: a fetch of the batch in progress resolved before one at a lower position
    error_text,                             \* str(e) of the exceptions raised in the run's environment
    report,                                 \* the dict crawl_website_parallel returned: None before
    pc,                                     \* position in crawl_website_parallel
    checkpoint,                             \* crawl_checkpoint.json: None when absent
    files,                                  \* *.md artifacts in the output directory
    dispatched,                             \* history: tasks passed to _crawl_single_page in this run
    checkpoint_seen,                        \* history: the checkpoint file as the run found it
    run_limits,                             \* history: limits of the earlier runs on the directory
    provenance,                             \* history: how the checkpoint file came to its content
    saved_frontier,                         \* history: the collections _save_checkpoint last serialized
    save_log,                               \* history: outcomes of the _save_checkpoint calls of the run
    batch_steps,                            \* history: batches popped in the run
    filter_call,                            \* history: the last direct call of _should_crawl_url
    runs,                                   \* history: runs that reached the checkpoint load
    skipped,                                \* history: links of the run that took the file_exists branch
    writes,                                 \* history: files the finalization of the run wrote, in order
    retry,                                  \* Crawler._crawl: the locals of its retry loop
    workers                                 \* _crawl_single_page: self.delay, the free permits of self.semaphore and the position of each call

config == << max_concurrent, max_depth, max_pages, include_patterns, exclude_patterns,
             error_text >>
frontier == << visited_urls, pending_tasks, completed_results >>
batch == << current_batch, batch_results, idx, holding, overtaken >>
disk == << checkpoint, files >>
history == << checkpoint_seen, run_limits, provenance, saved_frontier, save_log,
              batch_steps, filter_call, runs, skipped, writes, retry, workers >>

vars == << config, start_url, frontier, checkpoint_loaded, batch, pc, disk,
           dispatched, report, history >>

Limits == [max_concurrent : 1..MaxConcurrentBound,
           max_depth : 0..MaxDepthBound,
           max_pages : 1..MaxPagesBound]

\* include/exclude substring filters offered to a run ({} is None)
PatternChoices == { [include |-> {}, exclude |-> {}],
                    [include |-> {}, exclude |-> {"/y"}] }

\* link lists a fetched page may report: no link, one link, two distinct links
LinkLists ==
    { << >> } \cup { << a >> : a \in LinkUniverse }
              \cup { c \in LinkUniverse \X LinkUniverse : c[1] # c[2] }

(***************************************************************************)
(* Eligibility filter                                                      *)
(***************************************************************************)
\* the parts of the url text; a pattern of the model lies within one part
Parts(url) == { url.scheme, url.netloc, url.path, url.fragment } \ {""}

\* Python's  pattern in url  for the patterns and urls of the model
InText(pattern, url) ==
    \E part \in Parts(url) :
        \/ pattern = part
        \/ << pattern, part >> \in { << "a.test", "www.a.test" >>,
                                     << "test", "a.test" >>,
                                     << "test", "www.a.test" >> }

\* a comparison that takes a www. host for the bare host
is_same_domain_www(url1, url2) ==
    LET bare(h) == IF h = "www.a.test" THEN "a.test" ELSE h
    IN bare(lower(urlparse(url1).netloc)) = bare(lower(urlparse(url2).netloc))

\* AsyncParallelCrawler._is_same_domain
is_same_domain(url1, url2) ==
    LET domain1 == lower(urlparse(url1).netloc)
        domain2 == lower(urlparse(url2).netloc)
    IN domain1 = domain2

\* a filter that lets an include match decide before the exclude patterns
should_crawl_url_include_first(url, base_url, includes, excludes) ==
    IF ~is_valid_url(url) THEN FALSE
    ELSE IF ~is_same_domain(url, base_url) THEN FALSE
    ELSE IF includes # {} /\ \E pattern \in includes : InText(pattern, url) THEN TRUE
    ELSE IF excludes # {} /\ \E pattern \in excludes : InText(pattern, url) THEN FALSE
    ELSE includes = {}

\* AsyncParallelCrawler._should_crawl_url
should_crawl_url(url, base_url, includes, excludes) ==
    IF ~is_valid_url(url) THEN FALSE
    ELSE IF ~is_same_domain(url, base_url) THEN FALSE
    ELSE IF excludes # {} /\ \E pattern \in excludes : InText(pattern, url) THEN FALSE
    ELSE IF includes # {} THEN \E pattern \in includes : InText(pattern, url)
    ELSE TRUE

\* AsyncParallelCrawler._is_file_exists
is_file_exists(url, onDisk) == generate_filename(url) \in onDisk

(***************************************************************************)
(* Link expansion of one recorded result (the  for link in links  loop)    *)
(***************************************************************************)
\* a variant of within_limit that admits a link when the total equals the cap
within_limit_inclusive(n, pending) == n + Cardinality(pending) <= max_pages

\* within_limit = len(self.completed_results) + len(self.pending_tasks) < self.max_pages
within_limit(n, pending) == n + Cardinality(pending) < max_pages

\* what the loop does with one link; fr = [visited, pending, skipped],
\* n = len(completed_results)
ExamineLink(link, task, n, fr) ==
    LET should_crawl == should_crawl_url(link, start_url, include_patterns, exclude_patterns)
        is_visited == link \in fr.visited
        file_exists == is_file_exists(link, files)
    IN IF file_exists
       THEN [fr EXCEPT !.visited = @ \cup {link}, !.skipped = @ \cup {link}]
       ELSE IF should_crawl /\ ~is_visited /\ within_limit(n, fr.pending)
       THEN [fr EXCEPT !.pending =
                 TaskSetAdd(@, CrawlTask(link, task.depth + 1, Some(task.url)))]
       ELSE fr

RECURSIVE ExpandLinks(_, _, _, _)
ExpandLinks(links, task, n, fr) ==
    IF links = << >> THEN fr
    ELSE ExpandLinks(Tail(links), task, n, ExamineLink(Head(links), task, n, fr))


(***************************************************************************)
(* Checkpoint manager                                                      *)
(***************************************************************************)
\* a file whose text json.load rejects (truncated, partially written)
Unparsable == [unparsable |-> TRUE]

\* dict.get(key, default)
Get(d, key, default) == IF key \in DOMAIN d THEN d[key] ELSE default

CrawlResultFields ==
    { "url", "title", "content_length", "links_count", "success", "error",
      "depth", "filename" }
CrawlResultRequired == { "url", "title", "content_length", "links_count", "success" }

\* dataclasses.asdict of a CrawlResult
asdict(result) == [k \in CrawlResultFields |-> result[k]]

\* a task dict that leaves the provenance out
TaskDictNoParent(task) == [url |-> task.url, depth |-> task.depth]

\* the dict _save_checkpoint writes for a pending task
TaskDict(task) ==
    [url |-> task.url, depth |-> task.depth, parent_url |-> task.parent_url]

\* AsyncParallelCrawler._save_checkpoint: the document handed to json.dump
\* (timestamp and start_time are clock readings, total_processed is never
\* incremented by the crawler)
save_checkpoint(visited, pending, completed) ==
    [timestamp |-> "time",
     visited_urls |-> SetToSeq(visited),
     pending_tasks |-> SetToSeq({ TaskDict(task) : task \in pending }),
     completed_results |-> [i \in 1..Len(completed) |-> asdict(completed[i])],
     stats |-> [total_processed |-> 0, start_time |-> "time"]]

\* CrawlTask(url=task_data["url"], depth=task_data["depth"],
\*           parent_url=task_data.get("parent_url")); a missing key raises KeyError
TaskDataOk(task_data) == {"url", "depth"} \subseteq DOMAIN task_data
TaskFromData(task_data) ==
    CrawlTask(task_data["url"], task_data["depth"], Get(task_data, "parent_url", None))

\* CrawlResult(**result_data): a missing required field or an unknown key raises
\* TypeError, the optional fields take the dataclass defaults
ResultDataOk(result_data) ==
    /\ CrawlResultRequired \subseteq DOMAIN result_data
    /\ DOMAIN result_data \subseteq CrawlResultFields
ResultFromData(result_data) ==
    CrawlResult(result_data["url"], result_data["title"],
                result_data["content_length"], result_data["links_count"],
                result_data["success"], Get(result_data, "error", None),
                Get(result_data, "depth", 0), Get(result_data, "filename", None))

\* the  for task_data in ...  loop: tasks added before the first raising record
RECURSIVE LoadPending(_, _)
LoadPending(records, acc) ==
    IF records = << >> THEN [ok |-> TRUE, tasks |-> acc]
    ELSE IF ~TaskDataOk(Head(records)) THEN [ok |-> FALSE, tasks |-> acc]
    ELSE LoadPending(Tail(records), TaskSetAdd(acc, TaskFromData(Head(records))))

\* the  for result_data in ...  loop: results appended before the first raising record
RECURSIVE LoadCompleted(_, _)
LoadCompleted(records, acc) ==
    IF records = << >> THEN [ok |-> TRUE, results |-> acc]
    ELSE IF ~ResultDataOk(Head(records)) THEN [ok |-> FALSE, results |-> acc]
    ELSE LoadCompleted(Tail(records), Append(acc, ResultFromData(Head(records))))

\* AsyncParallelCrawler._load_checkpoint on a crawler whose collections are
\* obj = [visited, pending, completed]: the return value and the collections after
load_checkpoint(file, obj) ==
    IF file = None THEN [loaded |-> FALSE, obj |-> obj]
    ELSE IF "unparsable" \in DOMAIN file[1] THEN [loaded |-> FALSE, obj |-> obj]
    ELSE
      LET checkpoint_data == file[1]
          o1 == [obj EXCEPT !.visited = Range(Get(checkpoint_data, "visited_urls", << >>))]
          lp == LoadPending(Get(checkpoint_data, "pending_tasks", << >>), {})
          o2 == [o1 EXCEPT !.pending = lp.tasks]
          lc == LoadCompleted(Get(checkpoint_data, "completed_results", << >>), << >>)
          o3 == [o2 EXCEPT !.completed = lc.results]
      IN IF ~lp.ok THEN [loaded |-> FALSE, obj |-> o2]
         ELSE IF ~lc.ok THEN [loaded |-> FALSE, obj |-> o3]
         ELSE [loaded |-> TRUE, obj |-> o3]


(***************************************************************************)
(* Crawler._crawl (src/src/crawl4ai_mcp/crawler.py): the retry loop        *)
(***************************************************************************)
\* max_retries = 3
max_retries == 3

\* the locals of _crawl before its loop is entered: attempt is the loop
\* variable, calls counts the crawler.arun calls, waits lists the sleeps,
\* errors the texts of the exceptions caught, response is the dict returned
\* and raised the text of the exception that left the method
RetryIdle ==
    [pc |-> "idle", attempt |-> 0, calls |-> 0, waits |-> << >>, errors |-> << >>,
     response |-> None, raised |-> None]

\* str(e) of the exceptions an attempt can raise, each text cut into the
\* pieces a search for an error code can find in it
RetryErrorTexts ==
    { << "Page.goto: net::", "ERR_NETWORK_CHANGED", " at https://a.test/" >>,
      << "ERR_INTERNET_DISCONNECTED" >>,
      << "net::", "ERR_CONNECTION_RESET" >>,
      << "net::", "ERR_TIMED_OUT" >>,
      << "net::", "ERR_NAME_NOT_RESOLVED" >>,
      << "net::", "err_timed_out" >>,
      << "Invalid URL" >>,
      << >> }

\* code in error_msg
Occurs(code, error_msg) == \E i \in DOMAIN error_msg : error_msg[i] = code

\* a test that takes every exception for a network error
is_network_error_any(error_msg) == TRUE

\* lines 138-143
is_network_error(error_msg) ==
    \/ Occurs("ERR_NETWORK_CHANGED", error_msg)
    \/ Occurs("ERR_INTERNET_DISCONNECTED", error_msg)
    \/ Occurs("ERR_CONNECTION_RESET", error_msg)
    \/ Occurs("ERR_TIMED_OUT", error_msg)

\* a wait that grows by one second per attempt
backoff_linear(attempt) == attempt + 1

\* line 147: 2 ** attempt
backoff(attempt) == 2 ^ attempt

\* lines 116-121: the response dict built from the result of crawler.arun
Response(success) ==
    IF success
    THEN [success |-> TRUE, markdown |-> "markdown", title |-> "Title", error |-> None]
    ELSE [success |-> FALSE, markdown |-> "", title |-> "", error |-> Some("failed")]

(***************************************************************************)
(* _crawl_single_page, statement by statement                              *)
(***************************************************************************)
\* no call of _crawl_single_page is followed statement by statement
NoWorkers == [delay |-> 0, free |-> 0, calls |-> << >>]

\* the tasks the calls are made for
WorkerTasks == << SeedTask, CrawlTask(U("https", "a.test", "/x", ""), 1, Some(SeedUrl)) >>

\* a call before it enters  async with self.semaphore: path is the way the
\* try block was left, stored whether the artifact was written, listing
\* how the links were obtained, log the fetch, the sleep, the release of the
\* permit and the return in the order they happened
QueuedCall ==
    [pc |-> "queued", path |-> "", stored |-> FALSE, listing |-> "", result |-> None,
     links |-> << >>, log |-> << >>]

\* a finally block that sleeps only when the try block returned
SleepDueOnReturn(path, delay) == delay > 0 /\ path # "exception"

\* lines 291-294: finally -- if self.delay > 0: await asyncio.sleep(self.delay)
SleepDue(path, delay) == delay > 0

(***************************************************************************)
(* crawl_website_parallel                                                  *)
(***************************************************************************)
CurrentLimits ==
    [max_concurrent |-> max_concurrent, max_depth |-> max_depth, max_pages |-> max_pages]

\* a new AsyncParallelCrawler (lines 67-82) on an empty output directory
Init ==
    /\ \E l \in Limits :
          /\ max_concurrent = l.max_concurrent
          /\ max_depth = l.max_depth
          /\ max_pages = l.max_pages
    /\ \E p \in PatternChoices :
          /\ include_patterns = p.include
          /\ exclude_patterns = p.exclude
    /\ start_url \in Seeds
    /\ visited_urls = {}
    /\ pending_tasks = {}
    /\ completed_results = << >>
    /\ checkpoint_loaded = FALSE
    /\ current_batch = << >>
    /\ batch_results = << >>
    /\ idx = 0
    /\ holding = {}
    /\ overtaken = FALSE
    /\ error_text = "timeout"
    /\ report = None
    /\ pc = "idle"
    /\ checkpoint = None
    /\ files = {}
    /\ dispatched = << >>
    /\ checkpoint_seen = None
    /\ run_limits = {}
    /\ provenance = "none"
    /\ saved_frontier = None
    /\ save_log = << >>
    /\ batch_steps = 0
    /\ filter_call = None
    /\ runs = 0
    /\ skipped = {}
    /\ writes = << >>
    /\ retry = RetryIdle
    /\ workers = NoWorkers

\* a start that puts the seed through the tests of a discovered link
InitialPendingFiltered(loaded, pending, seed) ==
    IF \/ loaded
       \/ ~should_crawl_url(seed, seed, include_patterns, exclude_patterns)
       \/ seed \in visited_urls
       \/ is_file_exists(seed, files)
    THEN pending
    ELSE TaskSetAdd(pending, CrawlTask(seed, 0, None))

\* a start that enqueues the seed whether or not a checkpoint was loaded
InitialPendingAlwaysSeed(loaded, pending, seed) ==
    TaskSetAdd(pending, CrawlTask(seed, 0, None))

\* lines 364-367: the seed task is enqueued when no checkpoint was loaded
InitialPending(loaded, pending, seed) ==
    IF loaded THEN pending ELSE TaskSetAdd(pending, CrawlTask(seed, 0, None))

\* lines 347-370: normalize the seed, load the checkpoint, enqueue the seed
\* when no checkpoint was loaded
StartCrawl ==
    /\ pc = "idle"
    /\ LET seed == normalize_url(start_url)
           r == load_checkpoint(checkpoint,
                    [visited |-> visited_urls, pending |-> pending_tasks,
                     completed |-> completed_results])
       IN /\ start_url' = seed
          /\ checkpoint_loaded' = r.loaded
          /\ visited_urls' = r.obj.visited
          /\ completed_results' = r.obj.completed
          /\ pending_tasks' = InitialPending(r.loaded, r.obj.pending, seed)
    /\ checkpoint_seen' = checkpoint
    /\ dispatched' = << >>
    /\ runs' = runs + 1
    /\ pc' = "loop"
    /\ UNCHANGED << config, batch, disk, report, run_limits, provenance,
                    saved_frontier, save_log, batch_steps, filter_call, skipped,
                    writes, retry, workers >>

\* an error dict that counts the results held in memory
ErrorReportWithCounts(url, text) ==
    [success |-> FALSE, error |-> text, start_url |-> url,
     total_pages |-> Len(completed_results),
     successful_pages |-> 0, failed_pages |-> 0, pages |-> << >>]

\* lines 443-454: the dict the outermost handler returns
ErrorReport(url, text) ==
    [success |-> FALSE, error |-> text, start_url |-> url, total_pages |-> 0,
     successful_pages |-> 0, failed_pages |-> 0, pages |-> << >>]

\* lines 351-356 raise (the output directory cannot be created): the
\* outermost handler returns the error dict, nothing else has happened
StartFails ==
    /\ pc = "idle"
    /\ start_url' = normalize_url(start_url)
    /\ report' = Some(ErrorReport(normalize_url(start_url), error_text))
    /\ pc' = "done"
    /\ UNCHANGED << config, frontier, checkpoint_loaded, batch, disk, dispatched,
                    history >>

\* a while condition without the page cap
LoopGuardNoCap == pending_tasks # {}

\* line 373: the while condition
LoopGuard == pending_tasks # {} /\ Len(completed_results) < max_pages

\* a batch that takes all of pending
BatchSizeUncapped == Cardinality(pending_tasks)

\* line 375: len(list(self.pending_tasks)[:self.max_concurrent])
BatchSize == Min(max_concurrent, Cardinality(pending_tasks))

\* lines 140 and 384: gather starts the coroutines in order, each enters
\* self.semaphore (created with max_concurrent permits, line 77) while a
\* permit is left
Admitted(n) == 1..Min(n, max_concurrent)

\* a removal that leaves the last task of the batch in pending
TaskSetMinusButLast(pending, tasks) ==
    { t \in pending : t.url \notin TaskUrls(Range(SubSeq(tasks, 1, Len(tasks) - 1))) }

\* line 376: self.pending_tasks -= set(current_batch), elements compared by url
TaskSetMinus(pending, tasks) ==
    { t \in pending : t.url \notin TaskUrls(Range(tasks)) }

\* lines 373-382: take the batch out of pending and create its fetches
PopBatch ==
    /\ pc = "loop"
    /\ LoopGuard
    /\ \E tasks \in Arrangements(pending_tasks, BatchSize) :
          /\ current_batch' = tasks
          /\ pending_tasks' = TaskSetMinus(pending_tasks, tasks)
          /\ batch_results' = [i \in 1..Len(tasks) |-> None]
          /\ holding' = Admitted(Len(tasks))
          /\ overtaken' = FALSE
          /\ dispatched' = dispatched \o tasks
    /\ idx' = 0
    /\ batch_steps' = batch_steps + 1
    /\ pc' = "batch"
    /\ UNCHANGED << config, start_url, visited_urls, completed_results,
                    checkpoint_loaded, disk, report, checkpoint_seen, run_limits,
                    provenance, saved_frontier, save_log, filter_call, runs,
                    skipped, writes, retry, workers >>

(***************************************************************************)
(* _crawl_single_page: the fetch of one task of the batch                  *)
(***************************************************************************)
\* str(e) of an exception: the message it was built with, "" when it was
\* built with none (asyncio.TimeoutError() for one)
ErrorTexts == { "", "timeout" }

\* lines 269-277, 281-289 and 389-397: the failed result of a task
FailedResult(task) ==
    CrawlResult(task.url, "", 0, 0, FALSE, Some(error_text), task.depth, None)

\* lines 257-265: the result of a fetched and stored page
SuccessResult(task, links) ==
    CrawlResult(task.url, "Title", 1, Len(links), TRUE, None, task.depth,
                Some(generate_filename(task.url)))

\* what asyncio.gather holds for a resolved fetch: a (result, links) tuple or
\* an exception object
Returned(result, links) == [isException |-> FALSE, result |-> Some(result), links |-> links]
Raised == [isException |-> TRUE, result |-> None, links |-> << >>]

Unresolved == { i \in DOMAIN batch_results : batch_results[i] = None }

\* leaving  async with self.semaphore  (line 140): the permit of position i
\* goes to the first fetch still waiting for one
Release(i) ==
    LET waiting == Unresolved \ holding
    IN (holding \ {i}) \cup
       (IF waiting = {} THEN {}
        ELSE { CHOOSE w \in waiting : \A v \in waiting : w <= v })

\* a loop that takes up a result as soon as its own fetch is resolved
GatheredSoFar == idx < Len(batch_results) /\ batch_results[idx + 1] # None

\* line 384: gather has returned, every fetch of the batch is resolved
Gathered == Unresolved = {}

\* a worker that marks the urls of the batch visited on its own
FetchFrameMarksVisited ==
    /\ visited_urls' = visited_urls \cup TaskUrls(Range(current_batch))
    /\ UNCHANGED << config, start_url, pending_tasks, completed_results,
                    checkpoint_loaded, current_batch, idx, pc, checkpoint, dispatched,
                    report, history >>

FetchFrame ==
    UNCHANGED << config, start_url, frontier, checkpoint_loaded, current_batch, idx,
                 pc, checkpoint, dispatched, report, history >>

\* lines 206-267: the page is fetched, its artifact written, its links returned
FetchSucceeds ==
    /\ pc = "batch"
    /\ \E i \in holding, links \in LinkLists :
          LET task == current_batch[i] IN
          /\ files' = files \cup { generate_filename(task.url) }
          /\ holding' = Release(i)
          /\ overtaken' = (overtaken \/ \E j \in Unresolved : j < i)
          /\ batch_results' =
                [batch_results EXCEPT ![i] = Some(Returned(SuccessResult(task, links), links))]
    /\ FetchFrame

\* lines 268-278: the fetch reports failure
FetchFails ==
    /\ pc = "batch"
    /\ \E i \in holding :
          /\ batch_results' =
                [batch_results EXCEPT ![i] = Some(Returned(FailedResult(current_batch[i]), << >>))]
          /\ holding' = Release(i)
          /\ overtaken' = (overtaken \/ \E j \in Unresolved : j < i)
    /\ files' = files
    /\ FetchFrame

\* lines 280-290: an exception inside the fetch is caught by the worker; it
\* was raised before the artifact was written (lines 141-225) or after it
\* (lines 226-265, where the links are listed and the result is built)
FetchRaises ==
    /\ pc = "batch"
    /\ \E i \in holding, stored \in BOOLEAN :
          /\ batch_results' =
                [batch_results EXCEPT ![i] = Some(Returned(FailedResult(current_batch[i]), << >>))]
          /\ holding' = Release(i)
          /\ overtaken' = (overtaken \/ \E j \in Unresolved : j < i)
          /\ files' = IF stored THEN files \cup { generate_filename(current_batch[i].url) }
                       ELSE files
    /\ FetchFrame

\* line 384: an exception leaves the worker, gather returns it in place of the tuple
FetchEscapes ==
    /\ pc = "batch"
    /\ \E i \in holding :
          /\ batch_results' = [batch_results EXCEPT ![i] = Some(Raised)]
          /\ holding' = Release(i)
          /\ overtaken' = (overtaken \/ \E j \in Unresolved : j < i)
    /\ files' = files
    /\ FetchFrame

(***************************************************************************)
(* lines 387-432: one iteration of  for task, result_tuple in zip(...)     *)
(***************************************************************************)
\* an expansion test that still expands tasks at max_depth
MayExpandAtMaxDepth(result, task, n) ==
    result.success /\ task.depth <= max_depth /\ n < max_pages

\* lines 406-408: whether the links of a recorded result are examined
MayExpand(result, task, n) ==
    result.success /\ task.depth < max_depth /\ n < max_pages

\* line 403: the url of the task is marked when its result is recorded
MarkVisited(task, visited) == visited \cup {task.url}

\* a recording that tests the limits with the count before the append
RecordResultStaleCount(task, result, links, n, fr) ==
    LET marked == [fr EXCEPT !.visited = MarkVisited(task, @)]
    IN IF MayExpand(result, task, n - 1) THEN ExpandLinks(links, task, n - 1, marked)
       ELSE marked

\* lines 402-403 and 406-432 on the frontier [visited, pending, skipped]
RecordResult(task, result, links, n, fr) ==
    LET marked == [fr EXCEPT !.visited = MarkVisited(task, @)]
    IN IF MayExpand(result, task, n) THEN ExpandLinks(links, task, n, marked)
       ELSE marked

\* a conversion that loses the depth of a task whose fetch raised
ResultOfLosesDepth(task, result_tuple) ==
    IF result_tuple.isException THEN FailedResult([task EXCEPT !.depth = 0])
    ELSE result_tuple.result[1]

\* lines 388-400: the result recorded for a task of the batch
ResultOf(task, result_tuple) ==
    IF result_tuple.isException THEN FailedResult(task)
    ELSE result_tuple.result[1]

\* an iteration that walks the batch from its end
PositionFromEnd == Len(current_batch) - idx

\* line 387: zip(current_batch, batch_results) pairs the two lists position
\* by position, from the first one on
Position == idx + 1

ProcessResult ==
    /\ pc = "batch"
    /\ Gathered
    /\ idx < Len(current_batch)
    /\ LET task == current_batch[Position]
           result_tuple == batch_results[Position][1]
           result == ResultOf(task, result_tuple)
           links == IF result_tuple.isException THEN << >> ELSE result_tuple.links
           completed == Append(completed_results, result)
           fr == RecordResult(task, result, links, Len(completed),
                              [visited |-> visited_urls, pending |-> pending_tasks,
                               skipped |-> skipped])
       IN /\ completed_results' = completed
          /\ visited_urls' = fr.visited
          /\ pending_tasks' = fr.pending
          /\ skipped' = fr.skipped
    /\ idx' = idx + 1
    /\ pc' = IF idx + 1 = Len(current_batch) THEN "loop" ELSE "batch"
    /\ overtaken' = (overtaken /\ idx + 1 < Len(current_batch))
    /\ UNCHANGED << config, start_url, checkpoint_loaded, current_batch,
                    batch_results, holding, disk, dispatched, report,
                    checkpoint_seen, run_limits, provenance, saved_frontier,
                    save_log, batch_steps, filter_call, runs, writes, retry, workers >>

(***************************************************************************)
(* lines 434-441 and 478-513: stats, index file, checkpoint file           *)
(***************************************************************************)
\* [r for r in results if r.success] and its complement
RECURSIVE Successful(_)
Successful(results) ==
    IF results = << >> THEN << >>
    ELSE (IF Head(results).success THEN << Head(results) >> ELSE << >>)
         \o Successful(Tail(results))

RECURSIVE Failed(_)
Failed(results) ==
    IF results = << >> THEN << >>
    ELSE (IF Head(results).success THEN << >> ELSE << Head(results) >>)
         \o Failed(Tail(results))

\* sum(r.<field> for r in results)
RECURSIVE SumField(_, _)
SumField(results, field) ==
    IF results = << >> THEN 0
    ELSE Head(results)[field] + SumField(Tail(results), field)

\* f"{s / n * 100:.1f}%": the percentage rounded to one decimal (with at
\* most five results no percentage lies half-way between two tenths)
PercentText(s, n) ==
    LET tenths == (2000 * s + n) \div (2 * n)
    IN ToString(tenths \div 10) \o "." \o ToString(tenths % 10) \o "%"

\* a / b of Python, kept as the exact fraction
Quotient(a, b) == [num |-> a, den |-> b]

\* a reduction that sums the content length of all the results
SuccessReportAllResults(url, completed) ==
    [success |-> TRUE, start_url |-> url, total_pages |-> Len(completed),
     successful_pages |-> Len(Successful(completed)),
     failed_pages |-> Len(Failed(completed)),
     success_rate |-> IF completed # << >>
                      THEN PercentText(Len(Successful(completed)), Len(completed))
                      ELSE "0%",
     total_content_length |-> SumField(completed, "content_length"),
     total_links |-> SumField(Successful(completed), "links_count"),
     average_content_length |->
         IF Successful(completed) # << >>
         THEN Quotient(SumField(completed, "content_length"), Len(Successful(completed)))
         ELSE 0,
     pages |-> [i \in 1..Len(completed) |-> asdict(completed[i])]]

\* _generate_stats (lines 456-476) without the clock readings and the
\* output directory
SuccessReport(url, completed) ==
    LET successful_results == Successful(completed)
        failed_results == Failed(completed)
    IN [success |-> TRUE, start_url |-> url, total_pages |-> Len(completed),
        successful_pages |-> Len(successful_results),
        failed_pages |-> Len(failed_results),
        success_rate |-> IF completed # << >>
                         THEN PercentText(Len(successful_results), Len(completed))
                         ELSE "0%",
        total_content_length |-> SumField(successful_results, "content_length"),
        total_links |-> SumField(successful_results, "links_count"),
        average_content_length |->
            IF successful_results # << >>
            THEN Quotient(SumField(successful_results, "content_length"),
                          Len(successful_results))
            ELSE 0,
        pages |-> [i \in 1..Len(completed) |-> asdict(completed[i])]]

FinalizeFrame ==
    UNCHANGED << config, start_url, frontier, checkpoint_loaded, batch, files,
                 dispatched, checkpoint_seen, run_limits, batch_steps, filter_call,
                 runs, skipped, retry, workers >>

\* the loop has ended, the index and the checkpoint are written, the stats
\* are returned
Finalize ==
    /\ pc = "loop"
    /\ ~LoopGuard
    /\ checkpoint' = Some(save_checkpoint(visited_urls, pending_tasks, completed_results))
    /\ provenance' = "saved"
    /\ saved_frontier' = Some([visited |-> visited_urls, pending |-> pending_tasks,
                               completed |-> completed_results])
    /\ save_log' = Append(save_log, "written")
    /\ writes' = writes \o << "crawl_index.json", "crawl_checkpoint.json" >>
    /\ report' = Some(SuccessReport(start_url, completed_results))
    /\ pc' = "done"
    /\ FinalizeFrame

\* writing the index raises (lines 480-482): _save_checkpoint is not reached
\* and the outermost handler (lines 443-454) returns the error dict
FinalizeIndexFails ==
    /\ pc = "loop"
    /\ ~LoopGuard
    /\ checkpoint' = checkpoint
    /\ provenance' = IF checkpoint = None THEN provenance ELSE "stale"
    /\ report' = Some(ErrorReport(start_url, error_text))
    /\ pc' = "done"
    /\ UNCHANGED << saved_frontier, save_log, writes >>
    /\ FinalizeFrame

\* _save_checkpoint raises and swallows (lines 508-513): open(..., 'w') raised
\* and the file is untouched, or json.dump stopped part-way and left a
\* truncated file
FinalizeSaveFails ==
    /\ pc = "loop"
    /\ ~LoopGuard
    /\ \/ /\ checkpoint' = checkpoint
          /\ provenance' = IF checkpoint = None THEN provenance ELSE "stale"
       \/ /\ checkpoint' = Some(Unparsable)
          /\ provenance' = "truncated"
    /\ save_log' = Append(save_log, "failed")
    /\ writes' = Append(writes, "crawl_index.json")
    /\ report' = Some(SuccessReport(start_url, completed_results))
    /\ pc' = "done"
    /\ UNCHANGED saved_frontier
    /\ FinalizeFrame

(***************************************************************************)
(* An interrupt during the traversal                                       *)
(***************************************************************************)
\* what an interrupt leaves of the process: KeyboardInterrupt and the
\* cancellation asyncio.run delivers are not Exception, so neither
\* except Exception  of _crawl_single_page (line 280) nor the one of
\* crawl_website_parallel (line 443) runs; main (src/main.py lines 463-464)
\* logs and the process ends with its collections
AbortFrame ==
    /\ visited_urls' = {}
    /\ pending_tasks' = {}
    /\ completed_results' = << >>
    /\ checkpoint_loaded' = FALSE
    /\ current_batch' = << >>
    /\ batch_results' = << >>
    /\ idx' = 0
    /\ holding' = {}
    /\ overtaken' = FALSE
    /\ dispatched' = << >>
    /\ skipped' = {}
    /\ pc' = "aborted"
    /\ UNCHANGED << config, start_url, files, report, checkpoint_seen, run_limits,
                    saved_frontier, save_log, batch_steps, filter_call, runs, retry, workers >>

\* an interrupt handler that saves the collections before the process ends
InterruptSavesCheckpoint ==
    /\ pc \in { "loop", "batch" }
    /\ checkpoint' = Some(save_checkpoint(visited_urls, pending_tasks, completed_results))
    /\ provenance' = "saved"
    /\ writes' = Append(writes, "crawl_checkpoint.json")
    /\ AbortFrame

\* the interrupt arrives while the loop of lines 373-432 runs, between two
\* batches or while a batch is fetched or recorded
Interrupt ==
    /\ pc \in { "loop", "batch" }
    /\ UNCHANGED << checkpoint, provenance, writes >>
    /\ AbortFrame

(***************************************************************************)
(* A later run on the same output directory                                *)
(***************************************************************************)
\* crawl_website_async (lines 580-597) is called again on a directory whose
\* checkpoint the previous run saved: a new AsyncParallelCrawler (lines 67-82)
\* with the same limits or with another max_pages
ResumeRun ==
    /\ pc = "done"
    /\ runs < MaxRuns
    /\ provenance = "saved"
    /\ save_log = << "written" >>
    /\ max_pages' \in 1..MaxPagesBound
    /\ UNCHANGED << max_concurrent, max_depth >>
    /\ run_limits' = run_limits \cup {CurrentLimits}
    /\ visited_urls' = {}
    /\ pending_tasks' = {}
    /\ completed_results' = << >>
    /\ checkpoint_loaded' = FALSE
    /\ current_batch' = << >>
    /\ batch_results' = << >>
    /\ idx' = 0
    /\ holding' = {}
    /\ overtaken' = FALSE
    /\ dispatched' = << >>
    /\ report' = None
    /\ save_log' = << >>
    /\ batch_steps' = 0
    /\ pc' = "idle"
    /\ skipped' = {}
    /\ writes' = << >>
    /\ UNCHANGED << include_patterns, exclude_patterns, error_text, start_url, disk,
                    checkpoint_seen, provenance, saved_frontier, filter_call, runs,
                    retry, workers >>

Next ==
    \/ StartCrawl
    \/ StartFails
    \/ PopBatch
    \/ FetchSucceeds
    \/ FetchFails
    \/ FetchRaises
    \/ FetchEscapes
    \/ ProcessResult
    \/ Finalize
    \/ FinalizeIndexFails
    \/ FinalizeSaveFails
    \/ Interrupt
    \/ ResumeRun

Spec == Init /\ [][Next]_vars

\* the coordinator is straight-line code between its awaits, so each of its
\* steps is taken once it can be; every fetch in flight eventually resolves
\* (arun returns or raises, the timeout of the page bounds it)
FetchResolves == FetchSucceeds \/ FetchFails \/ FetchRaises \/ FetchEscapes
RunEnds == Finalize \/ FinalizeIndexFails \/ FinalizeSaveFails
Fairness ==
    /\ WF_vars(PopBatch)
    /\ WF_vars(FetchResolves)
    /\ WF_vars(ProcessResult)
    /\ WF_vars(RunEnds)



(***************************************************************************)
(* A run on a directory whose checkpoint file was not written by the       *)
(* crawler as it stands: absent, unparsable, or with a record that lacks a *)
(* field.                                                                  *)
(***************************************************************************)
DropKey(d, key) == [k \in DOMAIN d \ {key} |-> d[k]]

\* documents of the checkpoint format
CheckpointDocs ==
    { save_checkpoint(V, P, C) :
        V \in { {SeedUrl, U("https", "a.test", "/x", "")} },
        P \in SUBSET { CrawlTask(U("https", "A.TEST", "/y", ""), 1, Some(SeedUrl)),
                       CrawlTask(U("https", "a.test", "/x", "top"), 1, Some(SeedUrl)) },
        C \in { << >>,
                << SuccessResult(SeedTask, << >>) >>,
                << SuccessResult(SeedTask, << >>),
                   CrawlResult(U("https", "a.test", "/x", ""), "", 0, 0, FALSE,
                               Some("timeout"), 1, None) >> } }

\* a document one of whose records lacks a required field
DamagedDocs ==
    UNION { { [doc EXCEPT !.pending_tasks[i] = DropKey(@, key)] :
                i \in DOMAIN doc.pending_tasks, key \in {"url", "depth"} }
            \cup
            { [doc EXCEPT !.completed_results[i] = DropKey(@, "success")] :
                i \in DOMAIN doc.completed_results } : doc \in CheckpointDocs }

\* the top-level fields _load_checkpoint reads (lines 524-541)
TopLevelFields == { "visited_urls", "pending_tasks", "completed_results", "stats" }

DropKeys(d, keys) == [k \in DOMAIN d \ keys |-> d[k]]

\* a well-formed JSON object that lacks top-level fields of the format
IncompleteDocs ==
    LET doc == save_checkpoint(
                   {SeedUrl, U("https", "a.test", "/x", "")},
                   { CrawlTask(U("https", "A.TEST", "/y", ""), 1, Some(SeedUrl)) },
                   << SuccessResult(SeedTask, << >>) >>)
    IN { DropKeys(doc, keys) : keys \in SUBSET TopLevelFields \ { {} } }

InitDamaged ==
    /\ \E l \in { k \in Limits : k.max_depth = 1 /\ k.max_pages = 2 } :
          /\ max_concurrent = l.max_concurrent
          /\ max_depth = l.max_depth
          /\ max_pages = l.max_pages
    /\ include_patterns = {}
    /\ exclude_patterns = {}
    /\ start_url \in Seeds
    /\ visited_urls = {}
    /\ pending_tasks = {}
    /\ completed_results = << >>
    /\ checkpoint_loaded = FALSE
    /\ current_batch = << >>
    /\ batch_results = << >>
    /\ idx = 0
    /\ holding = {}
    /\ overtaken = FALSE
    /\ error_text \in ErrorTexts
    /\ report = None
    /\ pc = "idle"
    /\ checkpoint \in {None, Some(Unparsable)}
                         \cup { Some(doc) : doc \in DamagedDocs \cup IncompleteDocs }
    /\ files = {}
    /\ dispatched = << >>
    /\ checkpoint_seen = None
    /\ run_limits = {}
    /\ provenance = "external"
    /\ saved_frontier = None
    /\ save_log = << >>
    /\ batch_steps = 0
    /\ filter_call = None
    /\ runs = 0
    /\ skipped = {}
    /\ writes = << >>
    /\ retry = RetryIdle
    /\ workers = NoWorkers

NextDamaged ==
    \/ StartCrawl
    \/ StartFails
    \/ PopBatch
    \/ FetchSucceeds
    \/ FetchFails
    \/ FetchRaises
    \/ FetchEscapes
    \/ ProcessResult
    \/ Finalize
    \/ FinalizeIndexFails
    \/ FinalizeSaveFails

SpecDamaged == InitDamaged /\ [][NextDamaged]_vars


(***************************************************************************)
(* One run under fair scheduling, fresh or resumed from a well-formed      *)
(* checkpoint with pending tasks, with no expansion or the deepest one     *)
(***************************************************************************)
ResumableDocs ==
    { doc \in CheckpointDocs :
        Len(doc.pending_tasks) = 2 /\ Len(doc.completed_results) = 1 }

InitLive ==
    /\ \E l \in { k \in Limits : k.max_depth \in { 0, MaxDepthBound } } :
          /\ max_concurrent = l.max_concurrent
          /\ max_depth = l.max_depth
          /\ max_pages = l.max_pages
    /\ include_patterns = {}
    /\ exclude_patterns = {}
    /\ start_url = SeedUrl
    /\ visited_urls = {}
    /\ pending_tasks = {}
    /\ completed_results = << >>
    /\ checkpoint_loaded = FALSE
    /\ current_batch = << >>
    /\ batch_results = << >>
    /\ idx = 0
    /\ holding = {}
    /\ overtaken = FALSE
    /\ error_text = "timeout"
    /\ report = None
    /\ pc = "idle"
    /\ checkpoint \in {None} \cup { Some(doc) : doc \in ResumableDocs }
    /\ files = {}
    /\ dispatched = << >>
    /\ checkpoint_seen = None
    /\ run_limits = {}
    /\ provenance = IF checkpoint = None THEN "none" ELSE "external"
    /\ saved_frontier = None
    /\ save_log = << >>
    /\ batch_steps = 0
    /\ filter_call = None
    /\ runs = 0
    /\ skipped = {}
    /\ writes = << >>
    /\ retry = RetryIdle
    /\ workers = NoWorkers

SpecLive == InitLive /\ [][NextDamaged]_vars /\ Fairness


(***************************************************************************)
(* One run on an output directory that earlier crawls have written to:     *)
(* page artifacts may be there, a checkpoint may or may not                *)
(***************************************************************************)
\* artifacts found in the directory: the seed's page, a page of the site, a
\* page of another host
ReusedFiles ==
    { generate_filename(SeedUrl),
      generate_filename(U("https", "a.test", "/x", "")),
      generate_filename(U("https", "www.a.test", "/x", "")) }

\* pattern arguments of the run: none, an exclude pattern that meets a
\* fragment, an include pattern the seed does not meet, an exclude pattern
\* the seed meets
ReusedPatterns ==
    { [include |-> {}, exclude |-> {}],
      [include |-> {}, exclude |-> {"top"}],
      [include |-> {"/x"}, exclude |-> {}],
      [include |-> {}, exclude |-> {"a.test"}] }

InitReused ==
    /\ max_concurrent = 1 /\ max_depth = 1 /\ max_pages \in { 1, 2 }
    /\ \E p \in ReusedPatterns :
          /\ include_patterns = p.include
          /\ exclude_patterns = p.exclude
    /\ start_url \in Seeds
    /\ visited_urls = {}
    /\ pending_tasks = {}
    /\ completed_results = << >>
    /\ checkpoint_loaded = FALSE
    /\ current_batch = << >>
    /\ batch_results = << >>
    /\ idx = 0
    /\ holding = {}
    /\ overtaken = FALSE
    /\ error_text = "timeout"
    /\ report = None
    /\ pc = "idle"
    /\ checkpoint \in {None} \cup { Some(doc) : doc \in ResumableDocs }
    /\ files \in SUBSET ReusedFiles
    /\ dispatched = << >>
    /\ checkpoint_seen = None
    /\ run_limits = {}
    /\ provenance = IF checkpoint = None THEN "none" ELSE "external"
    /\ saved_frontier = None
    /\ save_log = << >>
    /\ batch_steps = 0
    /\ filter_call = None
    /\ runs = 0
    /\ skipped = {}
    /\ writes = << >>
    /\ retry = RetryIdle
    /\ workers = NoWorkers

SpecReused == InitReused /\ [][NextDamaged]_vars


(***************************************************************************)
(* Crawler._crawl called on one url                                        *)
(***************************************************************************)
InitRetry ==
    /\ Init
    /\ max_concurrent = 1 /\ max_depth = 0 /\ max_pages = 1
    /\ include_patterns = {} /\ exclude_patterns = {}
    /\ start_url = SeedUrl

RetryFrame ==
    UNCHANGED << config, start_url, frontier, checkpoint_loaded, batch, pc, disk,
                 dispatched, report, checkpoint_seen, run_limits, provenance,
                 saved_frontier, save_log, batch_steps, filter_call, runs, skipped,
                 writes, workers >>

\* lines 104-111: the configuration is built and the loop entered
RetryStart ==
    /\ retry.pc = "idle"
    /\ retry' = [retry EXCEPT !.pc = "attempt"]
    /\ RetryFrame

\* lines 112-131: crawler.arun returns a result, the response is returned
AttemptReturns ==
    /\ retry.pc = "attempt"
    /\ \E success \in BOOLEAN :
          retry' = [retry EXCEPT !.calls = @ + 1,
                                 !.response = Some(Response(success)),
                                 !.pc = "returned"]
    /\ RetryFrame

\* lines 133-151: the attempt raises; a network error with retries left is
\* slept on and the loop continues, anything else is raised again
AttemptRaises ==
    /\ retry.pc = "attempt"
    /\ \E error_msg \in RetryErrorTexts :
          retry' = IF is_network_error(error_msg) /\ retry.attempt < max_retries
                   THEN [retry EXCEPT !.calls = @ + 1,
                                      !.errors = Append(@, error_msg),
                                      !.waits = Append(@, backoff(retry.attempt)),
                                      !.attempt = @ + 1]
                   ELSE [retry EXCEPT !.calls = @ + 1,
                                      !.errors = Append(@, error_msg),
                                      !.raised = Some(error_msg),
                                      !.pc = "raised"]
    /\ RetryFrame

NextRetry ==
    \/ RetryStart
    \/ AttemptReturns
    \/ AttemptRaises

SpecRetry == InitRetry /\ [][NextRetry]_vars


(***************************************************************************)
(* _generate_stats called on its own, on result lists of any content       *)
(***************************************************************************)
\* results a list can hold: built by a fetch of the run (a failed one has
\* content_length 0) or loaded from a checkpoint file as it was written
StatsResults ==
    { CrawlResult(U("https", "a.test", "/x", ""), "Title", 1, 2, TRUE, None, 1,
                  Some(generate_filename(U("https", "a.test", "/x", "")))),
      CrawlResult(U("https", "A.TEST", "/y", ""), "Title", 2, 0, TRUE, None, 1,
                  Some(generate_filename(U("https", "A.TEST", "/y", "")))),
      CrawlResult(U("https", "a.test", "/x", "top"), "", 0, 0, FALSE, Some("timeout"), 1, None),
      CrawlResult(U("https", "a.test", "/", ""), "", 3, 1, FALSE, Some(""), 0, None) }

RECURSIVE ResultLists(_)
ResultLists(n) ==
    IF n = 0 THEN { << >> }
    ELSE ResultLists(n - 1) \cup
         { Append(s, r) : s \in { t \in ResultLists(n - 1) : Len(t) = n - 1 },
                          r \in StatsResults }

InitStats ==
    /\ max_concurrent = 1 /\ max_depth = 1 /\ max_pages = MaxPagesBound
    /\ include_patterns = {}
    /\ exclude_patterns = {}
    /\ start_url = SeedUrl
    /\ visited_urls = {}
    /\ pending_tasks = {}
    /\ completed_results \in ResultLists(MaxResults)
    /\ checkpoint_loaded = FALSE
    /\ current_batch = << >>
    /\ batch_results = << >>
    /\ idx = 0
    /\ holding = {}
    /\ overtaken = FALSE
    /\ error_text = "timeout"
    /\ report = None
    /\ pc = "stats"
    /\ checkpoint = None
    /\ files = {}
    /\ dispatched = << >>
    /\ checkpoint_seen = None
    /\ run_limits = {}
    /\ provenance = "none"
    /\ saved_frontier = None
    /\ save_log = << >>
    /\ batch_steps = 0
    /\ filter_call = None
    /\ runs = 0
    /\ skipped = {}
    /\ writes = << >>
    /\ retry = RetryIdle
    /\ workers = NoWorkers

\* line 436: stats = self._generate_stats(...)
GenerateStats ==
    /\ pc = "stats"
    /\ report' = Some(SuccessReport(start_url, completed_results))
    /\ pc' = "done"
    /\ UNCHANGED << config, start_url, frontier, checkpoint_loaded, batch, disk,
                    dispatched, history >>

SpecStats == InitStats /\ [][GenerateStats]_vars


(***************************************************************************)
(* _crawl_single_page followed through its suspension points               *)
(***************************************************************************)
InitWorker ==
    /\ max_concurrent \in 1..MaxConcurrentBound /\ max_depth = 1
    /\ max_pages = MaxPagesBound
    /\ include_patterns = {}
    /\ exclude_patterns = {}
    /\ start_url = SeedUrl
    /\ visited_urls = {}
    /\ pending_tasks = {}
    /\ completed_results = << >>
    /\ checkpoint_loaded = FALSE
    /\ current_batch = << >>
    /\ batch_results = << >>
    /\ idx = 0
    /\ holding = {}
    /\ overtaken = FALSE
    /\ error_text \in ErrorTexts
    /\ report = None
    /\ pc = "batch"
    /\ checkpoint = None
    /\ files = {}
    /\ dispatched = << >>
    /\ checkpoint_seen = None
    /\ run_limits = {}
    /\ provenance = "none"
    /\ saved_frontier = None
    /\ save_log = << >>
    /\ batch_steps = 0
    /\ filter_call = None
    /\ runs = 0
    /\ skipped = {}
    /\ writes = << >>
    /\ retry = RetryIdle
    /\ \E d \in { 0, 1 } :
          workers = [delay |-> d, free |-> max_concurrent,
                     calls |-> [k \in DOMAIN WorkerTasks |-> QueuedCall]]

WorkerFrame ==
    UNCHANGED << config, start_url, frontier, checkpoint_loaded, batch, pc, checkpoint,
                 dispatched, report, checkpoint_seen, run_limits, provenance,
                 saved_frontier, save_log, batch_steps, filter_call, runs, skipped,
                 writes, retry >>

\* the call at position k moves on: its fields change as given by c, the
\* permits of the semaphore become free
WorkerMoves(k, c, free) ==
    workers' = [workers EXCEPT !.calls[k] = c, !.free = free]

\* line 140: async with self.semaphore -- the call waits for a free permit
Acquire(k) ==
    /\ workers.calls[k].pc = "queued"
    /\ workers.free > 0
    /\ WorkerMoves(k, [workers.calls[k] EXCEPT !.pc = "fetching",
                                                !.log = Append(@, "acquire")],
                   workers.free - 1)
    /\ files' = files
    /\ WorkerFrame

\* lines 206-209: arun returns a result with result.success
ArunSucceeds(k) ==
    /\ workers.calls[k].pc = "fetching"
    /\ WorkerMoves(k, [workers.calls[k] EXCEPT !.pc = "storing",
                                                !.log = Append(@, "fetch")],
                   workers.free)
    /\ files' = files
    /\ WorkerFrame

\* lines 268-278: arun returns a result without result.success
ArunFails(k) ==
    /\ workers.calls[k].pc = "fetching"
    /\ WorkerMoves(k, [workers.calls[k] EXCEPT !.pc = "finally",
                                                !.path = "failure",
                                                !.result = Some(FailedResult(WorkerTasks[k])),
                                                !.log = Append(@, "fetch")],
                   workers.free)
    /\ files' = files
    /\ WorkerFrame

\* lines 141-207 and 280-290: building the configuration or arun raises
ArunRaises(k) ==
    /\ workers.calls[k].pc = "fetching"
    /\ WorkerMoves(k, [workers.calls[k] EXCEPT !.pc = "finally",
                                                !.path = "exception",
                                                !.result = Some(FailedResult(WorkerTasks[k])),
                                                !.log = Append(@, "fetch")],
                   workers.free)
    /\ files' = files
    /\ WorkerFrame

\* lines 211-226: the artifact of the page is written
Store(k) ==
    /\ workers.calls[k].pc = "storing"
    /\ WorkerMoves(k, [workers.calls[k] EXCEPT !.pc = "listing",
                                                !.stored = TRUE,
                                                !.log = Append(@, "write")],
                   workers.free)
    /\ files' = files \cup { generate_filename(WorkerTasks[k].url) }
    /\ WorkerFrame

\* lines 219 and 280-290: open() raises, no artifact is written
StoreRaises(k) ==
    /\ workers.calls[k].pc = "storing"
    /\ WorkerMoves(k, [workers.calls[k] EXCEPT !.pc = "finally",
                                                !.path = "exception",
                                                !.result = Some(FailedResult(WorkerTasks[k]))],
                   workers.free)
    /\ files' = files
    /\ WorkerFrame

\* lines 229-267: result.links lists the internal links, the successful
\* result is built with them
ListLinks(k) ==
    /\ workers.calls[k].pc = "listing"
    /\ \E links \in LinkLists \ { << >> } :
          WorkerMoves(k, [workers.calls[k] EXCEPT !.pc = "finally",
                                                   !.path = "success",
                                                   !.listing = "listed",
                                                   !.result = Some(SuccessResult(WorkerTasks[k], links)),
                                                   !.links = links],
                      workers.free)
    /\ files' = files
    /\ WorkerFrame

\* lines 252-253 and 117-136: result.links lists nothing and _extract_links
\* is called; what it finds, or the empty list its own  except Exception
\* leaves, becomes the links of the successful result
ExtractLinks(k) ==
    /\ workers.calls[k].pc = "listing"
    /\ \E fallback \in { "extracted", "extraction_failed" } :
       \E links \in IF fallback = "extracted" THEN LinkLists ELSE { << >> } :
          WorkerMoves(k, [workers.calls[k] EXCEPT !.pc = "finally",
                                                   !.path = "success",
                                                   !.listing = fallback,
                                                   !.result = Some(SuccessResult(WorkerTasks[k], << >>)),
                                                   !.links = links],
                      workers.free)
    /\ files' = files
    /\ WorkerFrame

\* lines 231-261 and 280-290: listing result.links raises (result.links is
\* not a dict of lists, an href that urlparse rejects, result.links absent
\* at line 261); the statements are inside the outer try, its handler
\* returns the failed result with no links
ListingRaises(k) ==
    /\ workers.calls[k].pc = "listing"
    /\ WorkerMoves(k, [workers.calls[k] EXCEPT !.pc = "finally",
                                                !.path = "exception",
                                                !.listing = "listing_failed",
                                                !.result = Some(FailedResult(WorkerTasks[k]))],
                   workers.free)
    /\ files' = files
    /\ WorkerFrame

\* lines 291-294: the finally block, run on the way out of every return
Delay(k) ==
    /\ workers.calls[k].pc = "finally"
    /\ WorkerMoves(k, [workers.calls[k] EXCEPT
                          !.pc = "leaving",
                          !.log = IF SleepDue(workers.calls[k].path, workers.delay)
                                  THEN Append(@, "sleep") ELSE @],
                   workers.free)
    /\ files' = files
    /\ WorkerFrame

\* line 140: the  async with  block is left, the permit is given back and
\* the (result, links) tuple reaches the caller
Leave(k) ==
    /\ workers.calls[k].pc = "leaving"
    /\ WorkerMoves(k, [workers.calls[k] EXCEPT !.pc = "returned",
                                                !.log = @ \o << "release", "return" >>],
                   workers.free + 1)
    /\ files' = files
    /\ WorkerFrame

NextWorker ==
    \E k \in DOMAIN WorkerTasks :
        \/ Acquire(k)
        \/ ArunSucceeds(k)
        \/ ArunFails(k)
        \/ ArunRaises(k)
        \/ Store(k)
        \/ StoreRaises(k)
        \/ ListLinks(k)
        \/ ExtractLinks(k)
        \/ ListingRaises(k)
        \/ Delay(k)
        \/ Leave(k)

SpecWorker == InitWorker /\ [][NextWorker]_vars


(***************************************************************************)
(* _should_crawl_url called on its own, on links, seeds and pattern lists  *)
(* a crawl would not combine                                               *)
(***************************************************************************)
FilterLinks == LinkUniverse \cup { U("", "a.test", "/x", ""), U("https", "a.test", "/y", "") }
FilterSeeds == Seeds \cup { U("https", "A.TEST", "/", ""), U("https", "www.a.test", "/", "") }
FilterPatterns == { "/x", "/y", "top", "a.test" }

InitFilter ==
    /\ Init
    /\ max_concurrent = 1 /\ max_depth = 0 /\ max_pages = 1
    /\ include_patterns = {} /\ exclude_patterns = {}
    /\ start_url = SeedUrl

\* lines 94-115 applied to one choice of arguments
ApplyFilter ==
    /\ filter_call = None
    /\ \E url \in FilterLinks, base_url \in FilterSeeds,
          includes \in SUBSET FilterPatterns, excludes \in SUBSET FilterPatterns :
          filter_call' = Some([url |-> url, base_url |-> base_url,
                               includes |-> includes, excludes |-> excludes,
                               decision |-> should_crawl_url(url, base_url, includes, excludes)])
    /\ UNCHANGED << config, start_url, frontier, checkpoint_loaded, batch, pc, disk,
                    dispatched, report, checkpoint_seen, run_limits, provenance,
                    saved_frontier, save_log, batch_steps, runs, skipped, writes,
                    retry, workers >>

SpecFilter == InitFilter /\ [][ApplyFilter]_vars


(***************************************************************************)
(* Properties                                                              *)
(***************************************************************************)
DispatchedUrls == { dispatched[i].url : i \in DOMAIN dispatched }

\* the run found no checkpoint file at all
FreshRun == runs >= 1 /\ checkpoint_seen = None

\* every earlier run on the directory had the limits of the present one
IdenticalLimits == run_limits \subseteq {CurrentLimits}

\* the state right after lines 347-370, before the first batch of the run
JustStarted == pc = "loop" /\ dispatched = << >>

\* C1: no duplicate fetches -- within a run no url is passed to
\* _crawl_single_page twice.
C1_NoDuplicateFetches ==
    \A i, j \in DOMAIN dispatched :
        i # j => dispatched[i].url # dispatched[j].url

\* C2: frontier disjointness -- at the end of every batch step no url is both
\* in visited_urls and the url of a pending task.
C2_FrontierDisjoint ==
    (pc = "loop" /\ dispatched # << >>) =>
        visited_urls \cap TaskUrls(pending_tasks) = {}

\* C3: a task's url is in visited from the moment its batch is popped, so no
\* task of the batch in flight or not yet processed is missing from visited
\* and none is enqueued again.
C3_VisitedAtDispatch ==
    pc = "batch" =>
        \A i \in DOMAIN current_batch :
            /\ current_batch[i].url \in visited_urls
            /\ current_batch[i].url \notin TaskUrls(pending_tasks)

\* C4: capacity bound -- in a fresh run and in runs resumed with identical
\* limits len(completed_results) <= max_pages + max_concurrent - 1, and a
\* batch is only popped while len(completed_results) < max_pages.
C4_CapacityBound ==
    /\ IdenticalLimits =>
          Len(completed_results) <= max_pages + max_concurrent - 1
    /\ pc = "batch" => Len(completed_results) - idx < max_pages

C4_Witness ==
    /\ IdenticalLimits
    /\ max_concurrent >= 2
    /\ Len(completed_results) = max_pages + max_concurrent - 1

\* C5: depth bound -- in a fresh run every dispatched task has a depth in
\* 0..max_depth; the seed has depth 0, any other task is one deeper than a
\* recorded parent whose depth is below max_depth.
C5_DepthBound ==
    FreshRun =>
        \A t \in Range(dispatched) \cup pending_tasks :
            /\ t.depth \in 0..max_depth
            /\ t.parent_url = None => (t.depth = 0 /\ t.url = start_url)
            /\ t.parent_url # None =>
                  \E i \in DOMAIN completed_results :
                      /\ completed_results[i].url = t.parent_url[1]
                      /\ completed_results[i].depth + 1 = t.depth
                      /\ completed_results[i].depth < max_depth

C5_Witness ==
    /\ FreshRun
    /\ max_depth = 2
    /\ \E i \in DOMAIN dispatched : dispatched[i].depth = 2

\* C6: same-origin containment -- in a fresh run the host of every enqueued
\* or dispatched task equals the seed's host up to letter case; a www. host
\* is another host.
C6_SameOrigin ==
    FreshRun =>
        \A t \in Range(dispatched) \cup pending_tasks :
            lower(urlparse(t.url).netloc) = lower(urlparse(start_url).netloc)

C6_Witness ==
    /\ FreshRun
    /\ \E i \in 1..idx :
          /\ batch_results[i] # None
          /\ batch_results[i][1].links =
                << U("https", "www.a.test", "/x", ""), U("https", "A.TEST", "/y", "") >>
    /\ U("https", "A.TEST", "/y", "") \in TaskUrls(pending_tasks)
    /\ U("https", "www.a.test", "/x", "") \notin TaskUrls(pending_tasks)

\* C7: checkpoint round trip -- a new crawler that loads the checkpoint a run
\* saved holds the visited set, the pending tasks (url, depth, parent_url)
\* and the completed results, in order, that were saved.
C7_RoundTrip ==
    (JustStarted /\ runs >= 2) =>
        /\ checkpoint_loaded
        /\ visited_urls = saved_frontier[1].visited
        /\ pending_tasks = saved_frontier[1].pending
        /\ completed_results = saved_frontier[1].completed

C7_Witness ==
    /\ JustStarted /\ runs >= 2
    /\ \E t \in pending_tasks : t.parent_url # None /\ t.depth = 2
    /\ \E i, j \in DOMAIN completed_results :
          completed_results[i].success /\ ~completed_results[j].success
    /\ Cardinality(visited_urls) >= 3

\* C8: idempotent resume -- a run resumed with identical limits from the
\* checkpoint of a run that ended dispatches nothing and keeps the number of
\* completed results.
C8_IdempotentResume ==
    (runs >= 2 /\ pc # "idle" /\ checkpoint_loaded /\ IdenticalLimits) =>
        /\ dispatched = << >>
        /\ Len(completed_results) = Len(checkpoint_seen[1].completed_results)

C8_Witness ==
    /\ runs >= 2 /\ pc = "done" /\ checkpoint_loaded /\ IdenticalLimits
    /\ pending_tasks # {}
    /\ Len(completed_results) >= max_pages

\* C9: resume does not redo work -- a resumed run dispatches no url of the
\* checkpoint's visited set or completed results.
C9_ResumeNoRedo ==
    (checkpoint_loaded /\ pc \in {"loop", "batch"}) =>
        \A u \in DispatchedUrls :
            /\ u \notin Range(checkpoint_seen[1].visited_urls)
            /\ \A i \in DOMAIN checkpoint_seen[1].completed_results :
                  checkpoint_seen[1].completed_results[i].url # u

\* C10: an absent or rejected checkpoint means a fresh start -- traversal
\* begins from visited = {}, completed = [], pending = {seed at depth 0}.
C10_RejectedMeansFresh ==
    (JustStarted /\ ~checkpoint_loaded) =>
        /\ visited_urls = {}
        /\ completed_results = << >>
        /\ pending_tasks = { CrawlTask(start_url, 0, None) }

\* the checkpoint file the run found cannot be parsed or lacks a top-level field
Lacking(file) ==
    /\ file # None
    /\ \/ "unparsable" \in DOMAIN file[1]
       \/ ~(TopLevelFields \subseteq DOMAIN file[1])

\* C11: a checkpoint file that is unparsable or lacks an expected top-level
\* field is reported absent by _load_checkpoint, so the run enqueues the seed.
C11_IncompleteIsAbsent ==
    (JustStarted /\ Lacking(checkpoint_seen)) =>
        /\ ~checkpoint_loaded
        /\ CrawlTask(start_url, 0, None) \in pending_tasks

\* results the run held before its first batch (those of the loaded checkpoint)
StartingResults ==
    IF checkpoint_loaded THEN Len(checkpoint_seen[1].completed_results) ELSE 0

\* tasks of the current batch whose result the loop of line 387 has recorded
ProcessedInBatch == IF pc = "batch" THEN idx ELSE Len(current_batch)

\* dispatched tasks whose result has been recorded
Processed == Len(dispatched) - (Len(current_batch) - ProcessedInBatch)

\* C12: exactly one result per dispatch -- the results appended in the run
\* are, in order, one per dispatched task whose batch position has been
\* processed, each with the url and the depth of its task, whatever the fetch
\* did.
C12_OneResultPerDispatch ==
    /\ Len(completed_results) = StartingResults + Processed
    /\ \A i \in 1..Processed :
          /\ completed_results[StartingResults + i].url = dispatched[i].url
          /\ completed_results[StartingResults + i].depth = dispatched[i].depth

C12_Witness ==
    /\ pc = "loop"
    /\ Len(dispatched) >= 3
    /\ Len(current_batch) = 2
    /\ batch_results[1] = Some(Raised)
    /\ current_batch[1].depth >= 1
    /\ batch_results[2] # Some(Raised)
    /\ batch_results[2][1].result[1].success

\* C13: a fetch whose exception reaches gather yields one failed result with
\* the url and depth of its task and a non-empty error text; the run goes on,
\* an error report only comes from the start or from the end of the run.
C13_ThrownFetchRecorded ==
    /\ \A i \in 1..ProcessedInBatch :
          batch_results[i] = Some(Raised) =>
             LET r == completed_results[Len(completed_results) - ProcessedInBatch + i]
             IN /\ r.url = current_batch[i].url
                /\ r.depth = current_batch[i].depth
                /\ ~r.success
                /\ r.error \notin { None, Some("") }
    /\ (report # None /\ ~report[1].success) => (dispatched = << >> \/ ~LoopGuard)

\* C14: a failed fetch is recorded as a failed result and its url is not
\* dispatched again in the run.
C14_NoRetryOfFailed ==
    \A i \in 1..Processed :
        ~completed_results[StartingResults + i].success =>
            \A j \in DOMAIN dispatched :
                j > i => dispatched[j].url # dispatched[i].url

\* C15: crawl_website_parallel always returns a dict; after a top-level
\* failure it is the error dict: success false, the error text, zero counts,
\* no pages.
C15_FailureReportShape ==
    pc = "done" =>
        /\ report # None
        /\ ~report[1].success =>
              /\ "error" \in DOMAIN report[1]
              /\ report[1].total_pages = 0
              /\ report[1].successful_pages = 0
              /\ report[1].failed_pages = 0
              /\ report[1].pages = << >>

C15_Witness ==
    /\ pc = "done"
    /\ ~report[1].success
    /\ Len(completed_results) >= 2
    /\ \E i \in DOMAIN completed_results : completed_results[i].success

\* C16: a failed checkpoint write leaves the report the one of a successful
\* save, and a run whose checkpoint load failed starts as a run without
\* checkpoint: nothing visited, nothing completed, only the seed pending.
C16_CheckpointFailuresIgnored ==
    /\ (pc = "done" /\ save_log = << "failed" >>) =>
          report = Some(SuccessReport(start_url, completed_results))
    /\ (JustStarted /\ checkpoint_seen # None /\ ~checkpoint_loaded) =>
          /\ visited_urls = {}
          /\ completed_results = << >>
          /\ TaskUrls(pending_tasks) = { start_url }

\* C17: _save_checkpoint is called exactly once in a run that has ended,
\* whether it ended with the stats or with the error dict, and never before.
C17_SaveOncePerRun ==
    /\ pc = "done" => Len(save_log) = 1
    /\ pc # "done" => save_log = << >>

\* C18: termination -- a run that has entered the traversal loop reaches
\* finalization; it pops at most max_pages batches, pops none while
\* len(completed_results) >= max_pages, and ends with pending empty or the
\* page cap reached.
C18_Termination ==
    /\ [](pc \in {"loop", "batch"} => <>(pc = "done"))
    /\ [](batch_steps <= max_pages)
    /\ [](pc = "batch" => Len(completed_results) - idx < max_pages)
    /\ [](pc = "done" => (pending_tasks = {} \/ Len(completed_results) >= max_pages))

C18_Witness ==
    /\ pc = "done"
    /\ max_pages >= 3
    /\ batch_steps = max_pages

\* C19: concurrency bound -- at most max_concurrent fetches hold the
\* semaphore, a batch has between 1 and max_concurrent tasks, and fetches are
\* in flight only for the one batch the loop is awaiting.
C19_ConcurrencyBound ==
    /\ Cardinality(holding) <= max_concurrent
    /\ pc = "batch" => Len(current_batch) \in 1..max_concurrent
    /\ pc # "batch" => (holding = {} /\ Unresolved = {})

C19_Witness ==
    /\ pc = "batch"
    /\ max_concurrent >= 2
    /\ Cardinality(holding) = max_concurrent
    /\ batch_steps >= 2

\* the host of a url text: what stands between "://" and the path
Host(url) == IF url.scheme = "" THEN "" ELSE url.netloc

\* C20: filter decision -- _should_crawl_url is true exactly when the link
\* has scheme and host, its host is the seed's host (letter case aside), no
\* exclude pattern occurs in it and, when include patterns are given, one of
\* them occurs in it.
C20_FilterDecision ==
    filter_call # None =>
        LET c == filter_call[1] IN
        c.decision <=>
            /\ c.url.scheme # "" /\ c.url.netloc # ""
            /\ lower(Host(c.url)) = lower(Host(c.base_url))
            /\ \A p \in c.excludes : ~InText(p, c.url)
            /\ (c.includes = {} \/ \E p \in c.includes : InText(p, c.url))

C20_Witness ==
    /\ filter_call # None
    /\ filter_call[1].url = U("https", "A.TEST", "/y", "")
    /\ filter_call[1].base_url = SeedUrl
    /\ filter_call[1].includes = { "/y" }
    /\ filter_call[1].excludes = { "/y", "top" }
    /\ ~filter_call[1].decision

\* C21: capacity reservation -- a discovered link is rejected whenever
\* len(completed_results) + len(pending_tasks) >= max_pages holds before it is
\* accepted, so immediately after any enqueue the total is at most max_pages.
C21_CapacityReservation ==
    [][ (pc = "batch" /\ pending_tasks' \ pending_tasks # {}) =>
            Len(completed_results') + Cardinality(pending_tasks') <= max_pages' ]_vars

\* the statement with the strict bound: after any enqueue the total stays
\* below max_pages
C21_StrictlyBelowCap ==
    [][ (pc = "batch" /\ pending_tasks' \ pending_tasks # {}) =>
            Len(completed_results') + Cardinality(pending_tasks') < max_pages' ]_vars

\* a link of the result just recorded was enqueued and the total reached the cap
C21_Witness ==
    /\ FreshRun
    /\ idx >= 1 /\ idx <= Len(current_batch)
    /\ \E t \in pending_tasks : t.parent_url = Some(current_batch[idx].url)
    /\ Len(completed_results) + Cardinality(pending_tasks) = max_pages

\* C22: already-persisted links -- a link examined while its artifact exists
\* gets no task and is marked visited, so no later batch of the run
\* dispatches it.
C22_PersistedLinkNeverDispatched ==
    /\ [](skipped \subseteq visited_urls)
    /\ [][ (pc = "loop" /\ pc' = "batch") =>
              \A i \in DOMAIN current_batch' : current_batch'[i].url \notin skipped ]_vars

\* C23: no enqueue at the cap -- a result recorded when
\* len(completed_results) >= max_pages adds none of its links to pending; a
\* fresh run with max_pages = 1 and a successful seed ends with pending empty
\* and exactly one completed result.
C23_NoEnqueueAtCap ==
    /\ [][ (pc = "batch" /\ Len(completed_results') = Len(completed_results) + 1
                         /\ Len(completed_results') >= max_pages) =>
              pending_tasks' = pending_tasks ]_vars
    /\ []((FreshRun /\ max_pages = 1 /\ pc = "done" /\ dispatched # << >>
                   /\ completed_results[1].success) =>
             (pending_tasks = {} /\ Len(completed_results) = 1))

\* a fresh run with max_pages = 1 that may expand the seed has ended; the
\* seed's page had two links
C23_Witness ==
    /\ FreshRun /\ max_pages = 1 /\ max_depth >= 1 /\ pc = "done"
    /\ include_patterns = {} /\ exclude_patterns = {}
    /\ Len(completed_results) = 1
    /\ completed_results[1].success /\ completed_results[1].links_count = 2
    /\ pending_tasks = {}

\* the distinct members of a link list that are on the seed's host and pass
\* the pattern filter
EligibleLinks(links) ==
    { links[i] : i \in { j \in DOMAIN links :
          should_crawl_url(links[j], start_url, include_patterns, exclude_patterns) } }

\* a fresh run limited to one level of expansion
SingleLevelRun == FreshRun /\ max_depth = 1 /\ dispatched # << >>

RECURSIVE SuccessfulLength(_, _)
SuccessfulLength(results, positions) ==
    IF positions = {} THEN 0
    ELSE LET i == CHOOSE j \in positions : TRUE
         IN (IF results[i].success THEN results[i].content_length ELSE 0)
            + SuccessfulLength(results, positions \ {i})

\* C25: stats reduction -- _generate_stats returns total_pages =
\* len(completed), successful_pages + failed_pages = total_pages,
\* total_content_length = the sum of content_length over the successful
\* results only, average_content_length = 0 when nothing succeeded,
\* success_rate "0%" when completed is empty, and pages lists every completed
\* result, the failed ones too, in the order of completed.
C25_StatsReduction ==
    (report # None /\ report[1].success) =>
        LET stats == report[1]
            successes == { i \in DOMAIN completed_results : completed_results[i].success }
        IN /\ stats.total_pages = Len(completed_results)
           /\ stats.successful_pages + stats.failed_pages = stats.total_pages
           /\ stats.successful_pages = Cardinality(successes)
           /\ stats.total_content_length =
                  SuccessfulLength(completed_results, DOMAIN completed_results)
           /\ (successes = {} => stats.average_content_length = 0)
           /\ (completed_results = << >> => stats.success_rate = "0%")
           /\ Len(stats.pages) = Len(completed_results)
           /\ \A i \in DOMAIN completed_results :
                  stats.pages[i] = asdict(completed_results[i])

\* stats of a list that holds a success and, after it, a failed result with
\* content of its own
C25_Witness ==
    /\ pc = "done" /\ report # None /\ report[1].success
    /\ Len(completed_results) = 3
    /\ completed_results[1].success
    /\ ~completed_results[2].success /\ completed_results[2].content_length = 3
    /\ ~completed_results[3].success
    /\ report[1].total_content_length = completed_results[1].content_length
    /\ report[1].failed_pages = 2

\* stats of the empty list
C25_EmptyStats ==
    /\ pc = "done" /\ report # None /\ report[1].success
    /\ completed_results = << >>
    /\ report[1].success_rate = "0%" /\ report[1].average_content_length = 0

\* C26: task identity is the normalized URL -- links that normalize to the
\* same URL are one task: among the tasks enqueued or dispatched in a run no
\* two with different url texts normalize to the same URL, and no task is
\* enqueued for a visited URL with a fragment added.
C26_IdentityIsNormalizedUrl ==
    /\ \A t1, t2 \in pending_tasks \cup Range(dispatched) :
           normalize_url(t1.url) = normalize_url(t2.url) => t1.url = t2.url
    /\ \A t \in pending_tasks, v \in visited_urls :
           normalize_url(t.url) = normalize_url(v) => t.url = v

\* C27: interruption -- an interrupt during the traversal ends the run with
\* no checkpoint write and no index write: the checkpoint file is the one the
\* run found (or none), nothing is returned, and the results held in memory,
\* those of the batch in flight included, are gone.
C27_InterruptWritesNothing ==
    pc = "aborted" =>
        /\ checkpoint = checkpoint_seen
        /\ writes = << >> /\ save_log = << >>
        /\ report = None
        /\ completed_results = << >> /\ batch_results = << >>

\* a resumed run was interrupted after a batch was popped and a page of the
\* directory had been written: the checkpoint of the earlier run is still there
C27_Witness ==
    /\ pc = "aborted"
    /\ runs = 2 /\ batch_steps >= 1
    /\ checkpoint # None /\ checkpoint = checkpoint_seen
    /\ files # {}

\* a first run interrupted in its second batch: no checkpoint file exists
C27_FirstRunInterrupted ==
    /\ pc = "aborted"
    /\ runs = 1 /\ batch_steps = 2
    /\ checkpoint = None
    /\ files # {}

\* C28: finalization order -- after the loop the run computes the stats,
\* then persists the checkpoint, then persists the index file: a run that
\* wrote both files wrote the checkpoint first.
C28_CheckpointBeforeIndex ==
    (pc = "done" /\ report # None /\ Len(writes) = 2) =>
        writes = << "crawl_checkpoint.json", "crawl_index.json" >>

\* the text of an exception names one of the four network error codes
NamesNetworkError(text) ==
    \E code \in { "ERR_NETWORK_CHANGED", "ERR_INTERNET_DISCONNECTED",
                   "ERR_CONNECTION_RESET", "ERR_TIMED_OUT" } :
        \E i \in DOMAIN text : text[i] = code

\* C29: retry protocol of Crawler._crawl -- an attempt that raises a network
\* error is retried, at most 3 times (4 attempts in all) after waits of 1, 2
\* and 4 seconds; the first attempt that returns ends the loop with its
\* result; when all 4 attempts raise a network error the last exception is
\* raised after exactly 4 attempts.
C29_RetryProtocol ==
    /\ retry.calls <= 4
    /\ Len(retry.waits) <= 3
    /\ \A i \in DOMAIN retry.waits : retry.waits[i] = << 1, 2, 4 >>[i]
    /\ retry.pc = "attempt" =>
          /\ Len(retry.waits) = retry.calls
          /\ \A i \in DOMAIN retry.errors : NamesNetworkError(retry.errors[i])
    /\ retry.pc = "returned" =>
          /\ retry.response # None /\ retry.raised = None
          /\ retry.calls = Len(retry.errors) + 1
          /\ Len(retry.waits) = Len(retry.errors)
    /\ (retry.pc = "raised" /\ NamesNetworkError(retry.errors[Len(retry.errors)])) =>
          /\ retry.calls = 4 /\ Len(retry.errors) = 4
          /\ retry.waits = << 1, 2, 4 >>
          /\ retry.raised = Some(retry.errors[4])
          /\ retry.response = None

\* four attempts raised a network error each and the last one left the method
C29_Witness ==
    /\ retry.pc = "raised" /\ retry.calls = 4
    /\ retry.waits = << 1, 2, 4 >>
    /\ \A i \in 1..4 : NamesNetworkError(retry.errors[i])
    /\ retry.raised = Some(<< "net::", "ERR_TIMED_OUT" >>)

\* the second attempt returned after one network error and a wait of 1
C29_ReturnedAfterRetry ==
    /\ retry.pc = "returned" /\ retry.calls = 2
    /\ retry.waits = << 1 >>
    /\ retry.response[1].success

\* C30: no retry of other errors -- an exception whose text names none of
\* the four network error codes leaves the method right after the attempt
\* that raised it, whatever the number of retries used before; a returned
\* result, success = false included, is returned without a further attempt.
C30_OtherErrorsNotRetried ==
    /\ [](\A i \in DOMAIN retry.errors :
             ~NamesNetworkError(retry.errors[i]) =>
                 /\ i = Len(retry.errors)
                 /\ retry.pc = "raised"
                 /\ retry.raised = Some(retry.errors[i])
                 /\ retry.calls = i
                 /\ Len(retry.waits) = i - 1)
    /\ [](retry.pc = "returned" =>
             /\ retry.calls = Len(retry.errors) + 1
             /\ \A i \in DOMAIN retry.errors : NamesNetworkError(retry.errors[i]))
    /\ [][ retry.pc \in { "returned", "raised" } => retry' = retry ]_vars

\* two retries were used, then the third attempt raised an error that is not
\* a network error (the code in lower case) and it left the method
C30_Witness ==
    /\ retry.pc = "raised" /\ retry.calls = 3
    /\ retry.waits = << 1, 2 >>
    /\ retry.raised = Some(<< "net::", "err_timed_out" >>)

\* the first attempt returned a failed result
C30_FailedResultReturned ==
    /\ retry.pc = "returned" /\ retry.calls = 1
    /\ ~retry.response[1].success

\* C31: atomic batch pop -- the step that starts a batch takes up to
\* max_concurrent tasks out of pending, all of them in that one step: the
\* batch comes from pending, none of its tasks is left there, all of them are
\* dispatched by the step, and while no result of the batch is recorded none
\* of its urls is in pending; a later batch, drawn from pending again, holds a
\* task popped before only if it was enqueued again.
C31_AtomicBatchPop ==
    /\ [][ (pc = "loop" /\ pc' = "batch") =>
              /\ Len(current_batch') >= 1 /\ Len(current_batch') <= max_concurrent
              /\ Range(current_batch') \subseteq pending_tasks
              /\ pending_tasks' = pending_tasks \ Range(current_batch')
              /\ TaskUrls(pending_tasks') \cap TaskUrls(Range(current_batch')) = {}
              /\ dispatched' = dispatched \o current_batch' ]_vars
    /\ []((pc = "batch" /\ idx = 0) =>
             TaskUrls(pending_tasks) \cap TaskUrls(Range(current_batch)) = {})

\* one of two pending tasks was popped under max_concurrent = 1, the other
\* is still pending and no fetch is resolved yet
C31_Witness ==
    /\ pc = "batch" /\ idx = 0 /\ Unresolved # {}
    /\ Len(current_batch) = 1 /\ max_concurrent = 1
    /\ Cardinality(pending_tasks) = 1
    /\ batch_steps >= 2

\* two pending tasks were popped together under max_concurrent = 2
C31_PairPopped ==
    /\ pc = "batch" /\ idx = 0
    /\ Len(current_batch) = 2 /\ max_concurrent = 2
    /\ pending_tasks = {}

\* C32: batch barrier -- while a fetch of the batch is unresolved no result
\* of the batch is recorded: visited, pending and completed do not change
\* and the loop over the results has not begun.
C32_BatchBarrier ==
    /\ [][ (pc = "batch" /\ Unresolved # {} /\ pc' # "aborted") =>
              UNCHANGED << visited_urls, pending_tasks, completed_results >> ]_vars
    /\ []((pc = "batch" /\ Unresolved # {}) => idx = 0)

\* the first fetch of a batch of two is resolved with success, the second is
\* not: nothing of the batch is recorded
C32_Witness ==
    /\ pc = "batch" /\ Len(current_batch) = 2
    /\ batch_results[1] # None /\ batch_results[2] = None
    /\ batch_results[1][1].result[1].success
    /\ current_batch[1].url \notin visited_urls
    /\ idx = 0

\* C33: completed order -- the results of a batch are appended in the order
\* of the batch, the result at the end of completed_results minus k being
\* that of the task k positions before the last one recorded, with the url
\* and the depth of that task, in whatever order the fetches resolved.
C33_CompletedInBatchOrder ==
    (pc \in { "batch", "loop" } /\ ProcessedInBatch <= Len(completed_results)) =>
        \A i \in 1..ProcessedInBatch :
            LET result == completed_results[Len(completed_results) - ProcessedInBatch + i]
            IN /\ result.url = current_batch[i].url
               /\ result.depth = current_batch[i].depth
               /\ (~batch_results[i][1].isException =>
                      result = batch_results[i][1].result[1])

\* the second fetch of a batch of two resolved first, with success, the first
\* one failed after it; the result of the first task is recorded, alone so far
C33_Witness ==
    /\ pc = "batch" /\ Len(current_batch) = 2 /\ idx = 1
    /\ overtaken
    /\ completed_results[Len(completed_results)].url = current_batch[1].url
    /\ ~completed_results[Len(completed_results)].success
    /\ batch_results[2][1].result[1].success

\* the steps that record a result of the batch
RecordingStep == pc = "batch" /\ idx' = idx + 1

WorkerStep == pc = "batch" /\ pc' = "batch" /\ batch_results' # batch_results

\* C36: single-owner frontier -- a fetch worker, on every path, leaves
\* visited_urls, pending_tasks and completed_results as they are; the three
\* collections change only in the steps of crawl_website_parallel (the
\* checkpoint load and the seed at the start, the batch pop, the recording of
\* a result) and when the crawler object itself ends or is created anew.
C36_SingleOwnerFrontier ==
    /\ [][ WorkerStep =>
              UNCHANGED << visited_urls, pending_tasks, completed_results >> ]_vars
    /\ [][ << visited_urls, pending_tasks, completed_results >>' #
              << visited_urls, pending_tasks, completed_results >> =>
              \/ pc = "idle"
              \/ pc = "loop" /\ pc' = "batch"
              \/ RecordingStep
              \/ pc' \in { "aborted", "idle" } ]_vars

\* both fetches of a batch are resolved, one stored its page and returned
\* two links, the other left by an exception; neither url is visited and
\* no result of the batch is recorded
C36_Witness ==
    /\ pc = "batch" /\ Len(current_batch) = 2 /\ Unresolved = {} /\ idx = 0
    /\ \E i, j \in 1..2 :
          /\ ~batch_results[i][1].isException
          /\ batch_results[i][1].result[1].success
          /\ Len(batch_results[i][1].links) = 2
          /\ batch_results[j][1].isException
    /\ TaskUrls(Range(current_batch)) \cap visited_urls = {}
    /\ FreshRun /\ Len(completed_results) = 1 /\ pending_tasks = {}

\* C38: bounded frontier growth -- in a fresh run, at the end of every batch
\* step, len(completed_results) + len(pending_tasks) is at most
\* max_pages + max_concurrent - 1.
C38_BoundedFrontier ==
    (FreshRun /\ pc = "loop" /\ batch_steps >= 1) =>
        Len(completed_results) + Cardinality(pending_tasks)
            <= max_pages + max_concurrent - 1

\* a batch of two has ended with the total one above max_pages: the first
\* result filled pending up to the cap, the second was appended on top
C38_Witness ==
    /\ FreshRun /\ pc = "loop" /\ batch_steps >= 2
    /\ max_concurrent = 2 /\ Len(current_batch) = 2
    /\ pending_tasks # {}
    /\ Len(completed_results) + Cardinality(pending_tasks) = max_pages + 1

\* C39: filtered links have no effect -- a link that the eligibility filter
\* rejects changes none of the collections, whether or not its artifact
\* exists: in a fresh run every visited url other than the seed passes the
\* filter, and every visited url is on the seed's host.
C39_FilteredLinksNoEffect ==
    FreshRun =>
        /\ \A v \in visited_urls \ { start_url } :
               should_crawl_url(v, start_url, include_patterns, exclude_patterns)
        /\ \A v \in visited_urls : lower(Host(v)) = lower(Host(start_url))

C40_LoadedRunSkipsSeed ==
    /\ checkpoint_loaded /\ pc = "batch" /\ batch_steps = 1
    /\ start_url \notin TaskUrls(Range(current_batch))

\* C35: polite delay -- with delay > 0, a call of _crawl_single_page that
\* has left its finally block has slept after its fetch, and the sleep comes
\* before the permit of the semaphore is given back and before the result
\* returns to the caller, whether the call ends with the successful result,
\* with the failure arun reported or in the exception handler; while the
\* call sleeps it still holds its permit.
C35_PoliteDelay ==
    /\ \A k \in DOMAIN workers.calls :
          LET c == workers.calls[k] IN
          (workers.delay > 0 /\ c.pc \in { "leaving", "returned" }) =>
              \E s \in DOMAIN c.log :
                  /\ c.log[s] = "sleep"
                  /\ \E a \in 1..(s - 1) : c.log[a] = "acquire"
                  /\ \A j \in DOMAIN c.log :
                        c.log[j] \in { "fetch", "write" } => j < s
                  /\ \A j \in DOMAIN c.log :
                        c.log[j] \in { "release", "return" } => s < j
    /\ workers.free + Cardinality({ k \in DOMAIN workers.calls :
                                      workers.calls[k].pc \notin { "queued", "returned" } })
          = IF workers.calls = << >> THEN 0 ELSE max_concurrent

\* with delay > 0 one call has returned through the exception handler and
\* another with the successful result
C35_Witness ==
    /\ workers.delay > 0
    /\ \E k \in DOMAIN workers.calls :
          workers.calls[k].pc = "returned" /\ workers.calls[k].path = "exception"
    /\ \E k \in DOMAIN workers.calls :
          workers.calls[k].pc = "returned" /\ workers.calls[k].path = "success"

\* with delay > 0 a call has returned the failure arun reported while the
\* other call waits for the only permit
C35_FailureReturnedUnderContention ==
    /\ workers.delay > 0 /\ max_concurrent = 1
    /\ workers.calls # << >>
    /\ workers.calls[1].pc = "queued"
    /\ workers.calls[2].pc = "leaving" /\ workers.calls[2].path = "failure"

\* C37: link-extraction failure is never escalated -- a call whose page was
\* fetched and stored and whose links could not be obtained (listing
\* result.links failed, or the fallback _extract_links failed) returns a
\* successful result and no links.
C37_ListingFailureNotEscalated ==
    \A k \in DOMAIN workers.calls :
        LET c == workers.calls[k] IN
        (c.pc = "returned" /\ c.stored
            /\ c.listing \in { "listing_failed", "extraction_failed" }) =>
            /\ c.result[1].success
            /\ c.links = << >>

\* the failure inside _extract_links is swallowed: the call returned the
\* successful result with no links
C37_FallbackFailureSwallowed ==
    \E k \in DOMAIN workers.calls :
        /\ workers.calls[k].pc = "returned"
        /\ workers.calls[k].listing = "extraction_failed"
        /\ workers.calls[k].result[1].success
        /\ workers.calls[k].links = << >>

====
